---------------------------- MODULE Spec2Model ----------------------------
(***************************************************************************)
(* Model of main.py: MovieRecommender (lazy feature matrix, cosine         *)
(* ranking), Interface.run (the menu loop) and concurrent callers of       *)
(* calculate_similarity.                                                   *)
(*                                                                         *)
(* Conventions.  Python lists are TLA+ sequences, so row indices are       *)
(* 1-based here (Python index i is position i+1).  A '|'-separated text    *)
(* field is held as the sequence of its '|'-separated entries, the empty   *)
(* string being the empty sequence.  Floating point feature values are     *)
(* held as integers in units of 1/Scale; cosine similarities are held as   *)
(* exact fractions <<numerator, denominator>> of the squared cosine (all   *)
(* features are non-negative, so squaring keeps the order).                *)
(***************************************************************************)
EXTENDS Integers, Sequences, FiniteSets, TLC

VARIABLES
    movies,            \* MovieRecommender.movies
    feature_matrix,    \* MovieRecommender.feature_matrix (None or the rows)
    movie_indices,     \* MovieRecommender.movie_indices (title -> position)
    lastOp,            \* the method of the recommender that ran last
    target,            \* target_movie_title of the last calculate_similarity
    outcome,           \* how that call ended
    indices,           \* most_similar_indices of that call
    recommendations,   \* the list that call returned
    builds,            \* runs of feature_engineering inside calculate_similarity
    explicit,          \* whether feature_engineering was ever called directly
    pc,                \* Interface.run: position in the loop
    lastPrint,         \* Interface.run: the last thing printed
    choice,            \* Interface.run: the last menu input read
    tpc,               \* concurrent callers: position of each thread
    ttitle,            \* concurrent callers: the title each thread asked for
    tres               \* concurrent callers: how each thread's call ended

vars == <<movies, feature_matrix, movie_indices, lastOp, target, outcome,
          indices, recommendations, builds, explicit,
          pc, lastPrint, choice, tpc, ttitle, tres>>

recVars == <<movies, feature_matrix, movie_indices, lastOp, target, outcome,
             indices, recommendations, builds, explicit>>
uiVars == <<pc, lastPrint, choice>>
thrVars == <<tpc, ttitle, tres>>

---------------------------------------------------------------------------
(* Bounds of the model *)

\* longest catalog handed to MovieRecommender
MaxMovies == 7
\* runs of feature_engineering inside calculate_similarity that are counted
MaxBuilds == 2
\* values of k a caller might ask for
MaxK == 6
\* concurrent callers
NumThreads == 2
\* longest catalog in the concurrent specification
MaxConcMovies == 2
\* feature values are integers in units of 1/Scale
Scale == 2

(* Program constants *)

\* datetime.now().year
current_year == 2026
\* the slice [1:6] of the descending order
SliceStart == 1
SliceStop == 6

---------------------------------------------------------------------------
(* Generic helpers *)

Min(a, b) == IF a <= b THEN a ELSE b

Range(s) == {s[i] : i \in DOMAIN s}

RECURSIVE SumOver(_, _)
SumOver(S, f) ==
    IF S = {} THEN 0
    ELSE LET x == CHOOSE y \in S : TRUE
         IN f[x] + SumOver(S \ {x}, f)

SetMin(S) == CHOOSE x \in S : \A y \in S : x <= y
SetMax(S) == CHOOSE x \in S : \A y \in S : x >= y

---------------------------------------------------------------------------
(* Movie records and the catalogs the loader can hand over *)

Movie(title, genres, keywords, cast, release_year, runtime, popularity, vote_average, vote_count) ==
    [title |-> title, genres |-> genres, keywords |-> keywords,
     cast |-> cast, release_year |-> release_year, runtime |-> runtime,
     popularity |-> popularity, vote_average |-> vote_average,
     vote_count |-> vote_count]

\* The rows of the data source.  Rows 1, 2 and 7 have the same features, as
\* do rows 4, 6 and rows 3, 8; the text fields of rows 4 and 6 hold only
\* English stop words; row 5 has empty text fields; row 6 repeats the title
\* of row 1.
Library ==
    << Movie("Inception", <<"action", "adventure">>, <<"dream">>, <<"leo">>, 2010, 2, 2, 2, 3),
       Movie("Tenet", <<"action", "adventure">>, <<"dream">>, <<"leo">>, 2010, 2, 2, 2, 3),
       Movie("The Matrix", <<"action", "scifi">>, <<"hacker">>, <<"keanu">>, 2008, 1, 1, 1, 1),
       Movie("Fire", <<"the">>, <<"fire">>, <<"system">>, 2009, 0, 0, 0, 0),
       Movie("Heat", <<>>, <<"hacker">>, <<>>, 2008, 2, 0, 1, 0),
       Movie("Inception", <<"the">>, <<"fire">>, <<"system">>, 2009, 0, 0, 0, 0),
       Movie("Dunkirk", <<"action", "adventure">>, <<"dream">>, <<"leo">>, 2010, 2, 2, 2, 3),
       Movie("Speed", <<"action", "scifi">>, <<"hacker">>, <<"keanu">>, 2008, 1, 1, 1, 1) >>

\* the catalogs the loader hands over: every run of consecutive rows among
\* the first maxLen rows of the data source, the empty catalog included
Catalogs(maxLen) ==
    LET n == Min(maxLen, Len(Library))
    IN {SubSeq(Library, a, b) : a \in 1..(n + 1), b \in 0..n}

\* the titles a caller may ask for: those of the catalog and one that the
\* data source does not hold
Queries(ms) == {ms[i].title : i \in DOMAIN ms} \cup {"Nonexistent Movie"}

UniqueTitles(ms) ==
    \A i, j \in 1..Len(ms) : ms[i].title = ms[j].title => i = j

---------------------------------------------------------------------------
(* feature_engineering *)

\* the entries of sklearn's English stop word list that the data source uses
StopWords == {"the", "fire", "system"}

\* tokenizer=lambda x: x.split('|'): the empty string splits into one empty
\* token
Tokenize(text) == IF text = <<>> THEN <<"">> ELSE text

\* the vectorizer's analyzer: tokenize, then drop the stop words
Analyze(text) ==
    LET NotStop(w) == w \notin StopWords
    IN SelectSeq(Tokenize(text), NotStop)

Vocabulary(docs) == UNION {Range(Analyze(docs[i])) : i \in DOMAIN docs}

\* fit_transform raises ValueError("empty vocabulary; ...") when no token
\* is left, which is also what an empty list of documents gives
EmptyVocabulary(docs) == Vocabulary(docs) = {}

TermCount(t, toks) == Cardinality({i \in DOMAIN toks : toks[i] = t})

\* TfidfVectorizer.fit_transform over one text field: one row per document,
\* one column per vocabulary entry of this field, named <<field, token>>.
\* A row is positive exactly on the tokens of its document; the weight kept
\* is the term count (idf and the row norm rescale it without changing
\* which rows are equal).
fit_transform(field, docs) ==
    [i \in DOMAIN docs |->
        [c \in {<<field, t>> : t \in Vocabulary(docs)} |->
            Scale * TermCount(c[2], Analyze(docs[i]))]]

\* np.log1p, in tenths, on the vote counts of the data source
log1p(v) == CASE v = 0 -> 0 [] v = 1 -> 7 [] v = 2 -> 11 [] OTHER -> 14

ContinuousColumns ==
    {"age", "runtime", "popularity", "vote_average", "vote_count"}

\* the array handed to the scaler, lines 171-180
RawContinuous(m, col) ==
    CASE col = "age" -> current_year - m.release_year
      [] col = "runtime" -> m.runtime
      [] col = "popularity" -> m.popularity
      [] col = "vote_average" -> m.vote_average
      [] OTHER -> log1p(m.vote_count)

\* MinMaxScaler.fit_transform: each column by its own minimum and maximum;
\* a constant column scales to 0
MinMaxScale(ms) ==
    [i \in DOMAIN ms |->
        [c \in {<<"cont", col>> : col \in ContinuousColumns} |->
            LET colvals == {RawContinuous(ms[j], c[2]) : j \in DOMAIN ms}
                lo == SetMin(colvals)
                hi == SetMax(colvals)
            IN IF hi = lo THEN 0
               ELSE ((RawContinuous(ms[i], c[2]) - lo) * Scale) \div (hi - lo)]]

\* np.hstack: the columns of the blocks side by side, row by row
hstack(blocks) ==
    [i \in DOMAIN blocks[1] |->
        blocks[1][i] @@ blocks[2][i] @@ blocks[3][i] @@ blocks[4][i]]

Field(ms, f) == [i \in DOMAIN ms |-> ms[i][f]]

\* feature_engineering raises (and assigns nothing) when one of the three
\* vectorizer calls raises
BuildRaises(ms) ==
    \/ EmptyVocabulary(Field(ms, "genres"))
    \/ EmptyVocabulary(Field(ms, "keywords"))
    \/ EmptyVocabulary(Field(ms, "cast"))

\* the matrix built over the movies in reverse order, as a build that
\* reorders its input would give
feature_engineering_reversed(ms) ==
    LET rs == [i \in DOMAIN ms |-> ms[Len(ms) + 1 - i]]
    IN hstack(<< fit_transform("genres", Field(rs, "genres")),
                 fit_transform("keywords", Field(rs, "keywords")),
                 fit_transform("cast", Field(rs, "cast")),
                 MinMaxScale(rs) >>)

\* the matrix feature_engineering assigns to self.feature_matrix
feature_engineering(ms) ==
    hstack(<< fit_transform("genres", Field(ms, "genres")),
              fit_transform("keywords", Field(ms, "keywords")),
              fit_transform("cast", Field(ms, "cast")),
              MinMaxScale(ms) >>)

\* Optional[np.ndarray]
None == [is_none |-> TRUE, rows |-> <<>>]
Matrix(rows) == [is_none |-> FALSE, rows |-> rows]


---------------------------------------------------------------------------
(* MovieRecommender.__init__ *)

RECURSIVE IndexUpTo(_, _)
\* {movie.title: i for i, movie in enumerate(self.movies)}: a later movie
\* with the same title overwrites the earlier entry
IndexUpTo(ms, n) ==
    IF n = 0 THEN <<>>
    ELSE (ms[n].title :> n) @@ IndexUpTo(ms, n - 1)

title_index(ms) == IndexUpTo(ms, Len(ms))

---------------------------------------------------------------------------
(* calculate_similarity: the ranking *)

Dot(a, b) == SumOver(DOMAIN a, [c \in DOMAIN a |-> a[c] * b[c]])

\* cosine_similarity([q], rows)[0], each score as the fraction
\* <<dot^2, |q|^2 * |row|^2>>; a row of norm 0 scores 0
cosine_similarity(q, rows) ==
    [i \in DOMAIN rows |->
        LET den == Dot(q, q) * Dot(rows[i], rows[i])
        IN IF den = 0 THEN <<0, 1>>
           ELSE <<Dot(q, rows[i]) * Dot(q, rows[i]), den>>]

ScoreLeq(s1, s2) == s1[1] * s2[2] <= s2[1] * s1[2]
ScoreEq(s1, s2) == s1[1] * s2[2] = s2[1] * s1[2]

RECURSIVE Ascending(_, _)
\* every order of the positions in S with non-decreasing scores
Ascending(scores, S) ==
    IF S = {} THEN {<<>>}
    ELSE UNION { {<<i>> \o rest : rest \in Ascending(scores, S \ {i})} :
                 i \in {j \in S : \A k \in S : ScoreLeq(scores[j], scores[k])} }

\* ndarray.argsort() with the default kind, which is not stable: any
\* ascending order of the positions; equal scores may come in any order
argsort(scores) == Ascending(scores, DOMAIN scores)

\* s[::-1]
Reverse(s) == [i \in 1..Len(s) |-> s[Len(s) + 1 - i]]

\* s[start:stop] for 0 <= start <= stop
Slice(s, start, stop) == SubSeq(s, start + 1, Min(stop, Len(s)))

\* the result with one element fewer, as a slice [1:5] would give
most_similar_indices_short(order) ==
    Slice(Reverse(order), SliceStart, SliceStop - 1)

\* the result taken from the ascending order, without [::-1]
most_similar_indices_ascending(order) == Slice(order, SliceStart, SliceStop)

\* similarity_scores.argsort()[::-1][1:6]
most_similar_indices(order) == Slice(Reverse(order), SliceStart, SliceStop)

\* [self.movies[i].title for i in most_similar_indices]
titles_of(ms, idxs) == [k \in DOMAIN idxs |-> ms[idxs[k]].title]

\* the target excluded by removing it from the list
movies_without_target(ms, target_idx) ==
    SubSeq(ms, 1, target_idx - 1) \o SubSeq(ms, target_idx + 1, Len(ms))

\* self.movies after lines 205-210, which only read it
movies_after_ranking(ms, target_idx) == ms

---------------------------------------------------------------------------
(* The recommender's operations *)

InitRecommender(catalogs) ==
    /\ movies \in catalogs
    /\ feature_matrix = None
    /\ movie_indices = title_index(movies)
    /\ lastOp = "__init__"
    /\ target = ""
    /\ outcome = "none"
    /\ indices = <<>>
    /\ recommendations = <<>>
    /\ builds = 0
    /\ explicit = FALSE

\* lines 200-210 on a built matrix: look the title up, rank, return
lookup_and_rank(title, matrix) ==
    /\ movie_indices' = movie_indices
    /\ IF title \notin DOMAIN movie_indices
       THEN /\ outcome' = "not_found"
            /\ indices' = <<>>
            /\ recommendations' = <<>>
            /\ movies' = movies
       ELSE LET target_idx == movie_indices[title]
                similarity_scores ==
                    cosine_similarity(matrix.rows[target_idx], matrix.rows)
            IN /\ outcome' = "returned"
               /\ \E order \in argsort(similarity_scores) :
                     /\ indices' = most_similar_indices(order)
                     /\ recommendations' =
                           titles_of(movies, most_similar_indices(order))
               /\ movies' = movies_after_ranking(movies, target_idx)

\* calculate_similarity(title), lines 197-210, as one step
calculate_similarity(title) ==
    LET unbuilt == feature_matrix.is_none
        raises == unbuilt /\ BuildRaises(movies)
        matrix == IF unbuilt THEN Matrix(feature_engineering(movies))
                  ELSE feature_matrix
    IN /\ unbuilt => builds < MaxBuilds
       /\ lastOp' = "calculate_similarity"
       /\ target' = title
       /\ builds' = IF unbuilt THEN builds + 1 ELSE builds
       /\ explicit' = explicit
       /\ IF raises
          THEN /\ feature_matrix' = feature_matrix
               /\ outcome' = "build_error"
               /\ indices' = <<>>
               /\ recommendations' = <<>>
               /\ UNCHANGED <<movies, movie_indices>>
          ELSE /\ feature_matrix' = matrix
               /\ lookup_and_rank(title, matrix)

\* a direct call of calculate_similarity
Call(title) ==
    /\ calculate_similarity(title)
    /\ UNCHANGED <<uiVars, thrVars>>

\* a direct call of feature_engineering(), lines 154-182
ExplicitBuild ==
    /\ explicit' = TRUE
    /\ lastOp' = "feature_engineering"
    /\ feature_matrix' = IF BuildRaises(movies) THEN feature_matrix
                         ELSE Matrix(feature_engineering(movies))
    /\ UNCHANGED <<movies, movie_indices, target, outcome, indices,
                   recommendations, builds, uiVars, thrVars>>

Init ==
    /\ InitRecommender(Catalogs(MaxMovies))
    /\ pc = "not_running"
    /\ lastPrint = "nothing"
    /\ choice = ""
    /\ tpc = [t \in 1..NumThreads |-> "idle"]
    /\ ttitle = [t \in 1..NumThreads |-> ""]
    /\ tres = [t \in 1..NumThreads |-> "none"]

Next ==
    \/ \E title \in Queries(movies) : Call(title)
    \/ ExplicitBuild

Spec == Init /\ [][Next]_vars


---------------------------------------------------------------------------
(* Interface.run *)

\* what the user may type at the menu prompt
MenuInputs == {"1", "2", " 2 ", "3", "0", "x", "2.0", ""}

\* int(input(...)): surrounding blanks are ignored; anything that is not an
\* integer literal raises ValueError
int(text) ==
    CASE text = "1" -> [ok |-> TRUE, value |-> 1]
      [] text = "2" -> [ok |-> TRUE, value |-> 2]
      [] text = " 2 " -> [ok |-> TRUE, value |-> 2]
      [] text = "3" -> [ok |-> TRUE, value |-> 3]
      [] text = "0" -> [ok |-> TRUE, value |-> 0]
      [] OTHER -> [ok |-> FALSE, value |-> 0]

\* the loop ended where it should have gone back to the menu
AfterInvalidBreak == "done"

\* `continue` after "Invalid input. Please enter 1 or 2."
AfterInvalid == "frontscreen"

\* frontscreen(): the menu is printed
Frontscreen ==
    /\ pc = "frontscreen"
    /\ lastPrint' = "menu"
    /\ pc' = "choice"
    /\ UNCHANGED <<choice, recVars, thrVars>>

\* lines 249-259: read the choice; report an invalid one, leave on 2
ReadChoice(text) ==
    /\ pc = "choice"
    /\ choice' = text
    /\ IF ~int(text).ok \/ int(text).value \notin {1, 2}
       THEN /\ lastPrint' = "invalid"
            /\ pc' = AfterInvalid
       ELSE IF int(text).value = 2
       THEN /\ lastPrint' = "exit"
            /\ pc' = "done"
       ELSE /\ lastPrint' = lastPrint
            /\ pc' = "title"
    /\ UNCHANGED <<recVars, thrVars>>

\* lines 261-267: read the title, print the recommendations or the error
ReadTitle(title) ==
    /\ pc = "title"
    /\ calculate_similarity(title)
    /\ lastPrint' = IF outcome' = "returned" THEN "recommendations" ELSE "error"
    /\ pc' = "frontscreen"
    /\ UNCHANGED <<choice, thrVars>>

InitUI ==
    /\ InitRecommender(Catalogs(MaxMovies))
    /\ pc = "frontscreen"
    /\ lastPrint = "nothing"
    /\ choice = ""
    /\ tpc = [t \in 1..NumThreads |-> "idle"]
    /\ ttitle = [t \in 1..NumThreads |-> ""]
    /\ tres = [t \in 1..NumThreads |-> "none"]

NextUI ==
    \/ Frontscreen
    \/ \E text \in MenuInputs : ReadChoice(text)
    \/ \E title \in Queries(movies) : ReadTitle(title)

SpecUI == InitUI /\ [][NextUI]_vars

---------------------------------------------------------------------------
(* Concurrent callers of calculate_similarity on one recommender.  Each     *)
(* thread runs lines 197-210; a thread switch may fall between the test of  *)
(* line 197, the build of line 198 and the rest.                            *)

Threads == 1..NumThreads

\* a thread enters calculate_similarity(title)
Enter(t, title) ==
    /\ tpc[t] = "idle"
    /\ tpc' = [tpc EXCEPT ![t] = "test"]
    /\ ttitle' = [ttitle EXCEPT ![t] = title]
    /\ UNCHANGED <<tres, recVars, uiVars>>

\* line 197: if self.feature_matrix is None
TestNone(t) ==
    /\ tpc[t] = "test"
    /\ tpc' = [tpc EXCEPT ![t] = IF feature_matrix.is_none THEN "build" ELSE "rank"]
    /\ UNCHANGED <<ttitle, tres, recVars, uiVars>>

\* line 198: self.feature_engineering()
Build(t) ==
    /\ tpc[t] = "build"
    /\ builds < MaxBuilds
    /\ builds' = builds + 1
    /\ IF BuildRaises(movies)
       THEN /\ feature_matrix' = feature_matrix
            /\ tpc' = [tpc EXCEPT ![t] = "done"]
            /\ tres' = [tres EXCEPT ![t] = "build_error"]
       ELSE /\ feature_matrix' = Matrix(feature_engineering(movies))
            /\ tpc' = [tpc EXCEPT ![t] = "rank"]
            /\ tres' = tres
    /\ UNCHANGED <<movies, movie_indices, lastOp, target, outcome, indices,
                   recommendations, explicit, ttitle, uiVars>>

\* lines 200-210, on the matrix that is cached by now
Rank(t) ==
    /\ tpc[t] = "rank"
    /\ lastOp' = "calculate_similarity"
    /\ target' = ttitle[t]
    /\ lookup_and_rank(ttitle[t], feature_matrix)
    /\ tpc' = [tpc EXCEPT ![t] = "done"]
    /\ tres' = [tres EXCEPT ![t] = outcome']
    /\ UNCHANGED <<feature_matrix, builds, explicit, ttitle, uiVars>>

InitConc ==
    /\ InitRecommender(Catalogs(MaxConcMovies))
    /\ pc = "not_running"
    /\ lastPrint = "nothing"
    /\ choice = ""
    /\ tpc = [t \in Threads |-> "idle"]
    /\ ttitle = [t \in Threads |-> ""]
    /\ tres = [t \in Threads |-> "none"]

NextConc ==
    \/ \E t \in Threads, title \in Queries(movies) : Enter(t, title)
    \/ \E t \in Threads : TestNone(t)
    \/ \E t \in Threads : Build(t)
    \/ \E t \in Threads : Rank(t)

SpecConc == InitConc /\ [][NextConc]_vars


---------------------------------------------------------------------------
(* Properties *)

Built == ~feature_matrix.is_none
Returned == outcome = "returned"
Called == outcome # "none"
N == Len(movies)

\* the similarity scores of the last call that returned
LastScores ==
    cosine_similarity(feature_matrix.rows[movie_indices[target]],
                      feature_matrix.rows)

\* C1: with unique titles, the list calculate_similarity(title) returns
\* never contains title, also when other movies score as high as the query
\* itself.
C1_NeverContainsQuery ==
    (Returned /\ UniqueTitles(movies)) => target \notin Range(recommendations)

\* C2 as stated: the returned list has min(k, N-1) titles for every
\* requested k.
C2_LengthMinK ==
    Returned => \A k \in 1..MaxK : Len(recommendations) = Min(k, N - 1)

\* C2 as amended: the call takes no k; every list it returns has exactly
\* min(5, N-1) titles, 5 being the width of the slice [1:6].
C2_LengthMinFive ==
    Returned => Len(recommendations) = Min(SliceStop - SliceStart, N - 1)

C2_Witness ==
    Returned /\ N >= 7 /\ Len(recommendations) = 5

\* C3: a call ends in the not-found error if and only if the title is not a
\* key of the title index, whatever the size of the catalog.
C3_NotFoundIff ==
    Called => ((outcome = "not_found") <=> (target \notin DOMAIN movie_indices))

\* C4: over any sequence of calculate_similarity calls the matrix is built
\* exactly once: after the first call (however it ended) the recommender is
\* READY and stays READY, and feature_engineering has run once.
C4_BuiltExactlyOnce ==
    (Called /\ ~explicit) => (Built /\ builds = 1)

\* C5: with concurrent callers on an UNBUILT recommender the build runs at
\* most once.
C5_BuildAtMostOnce ==
    ~BuildRaises(movies) => builds <= 1

\* C6: on a catalog of zero or one items a call never ends in an error from
\* inside the build: it ends in not-found, or, for a title of the catalog,
\* returns the empty list (the code has no minimum-size error).
C6_DegenerateCatalog ==
    (N <= 1 /\ Called) =>
        /\ outcome \in {"returned", "not_found"}
        /\ target \in DOMAIN movie_indices =>
              (Returned /\ recommendations = <<>>)

\* whether row is the feature row of ms[i]: positive on exactly the tokens
\* of ms[i] in each text block, and in each continuous column 0 exactly at
\* the column's minimum and Scale exactly at its maximum (if they differ)
IsFeatureRowOf(row, ms, i) ==
    /\ \A f \in {"genres", "keywords", "cast"} :
          /\ \A t \in Range(Analyze(ms[i][f])) : <<f, t>> \in DOMAIN row
          /\ \A c \in DOMAIN row :
                c[1] = f => (row[c] > 0 <=> c[2] \in Range(Analyze(ms[i][f])))
    /\ \A col \in ContinuousColumns :
          LET colvals == {RawContinuous(ms[j], col) : j \in DOMAIN ms}
              mine == RawContinuous(ms[i], col)
          IN /\ <<"cont", col>> \in DOMAIN row
             /\ row[<<"cont", col>>] = 0 <=> mine = SetMin(colvals)
             /\ row[<<"cont", col>>] = Scale <=>
                   (mine = SetMax(colvals) /\ mine # SetMin(colvals))

\* C7: with unique titles the title index maps movies[i].title to i, and a
\* built matrix has one row per movie, row i being the feature row of
\* movies[i].
C7_IndexAndRowsInSync ==
    UniqueTitles(movies) =>
        /\ DOMAIN movie_indices = {movies[i].title : i \in 1..N}
        /\ \A i \in 1..N : movie_indices[movies[i].title] = i
        /\ Built =>
              /\ Len(feature_matrix.rows) = N
              /\ \A i \in 1..N : IsFeatureRowOf(feature_matrix.rows[i], movies, i)

C7_Witness ==
    UniqueTitles(movies) /\ N >= 4 /\ Built /\ Returned /\ explicit

\* C8: run ends only on menu choice 2, printing the exit message last; an
\* invalid menu input and a not-found error are reported and the loop goes
\* back to the menu.
C8_RunEndsOnlyOnTwo ==
    [][ /\ (pc' = "done" /\ pc # "done") =>
              /\ pc = "choice"
              /\ int(choice').ok /\ int(choice').value = 2
              /\ lastPrint' = "exit"
        /\ (pc = "choice" /\ (~int(choice').ok \/ int(choice').value \notin {1, 2})) =>
              (lastPrint' = "invalid" /\ pc' = "frontscreen")
        /\ (pc = "title" /\ outcome' = "not_found") =>
              (lastPrint' = "error" /\ pc' = "frontscreen")
        /\ pc = "done" => (pc' = "done" /\ lastPrint' = "exit")
      ]_vars

C8_Witness ==
    pc = "done" /\ choice = " 2 " /\ outcome = "not_found" /\ lastPrint = "exit"

\* C9: a calculate_similarity call, however it ends, never changes the
\* movie list or the title index; on a READY recommender it leaves the
\* matrix as it is, on an UNBUILT one the matrix stays None or becomes the
\* built matrix.
C9_CallFrame ==
    [][ lastOp' = "calculate_similarity" =>
            /\ movies' = movies
            /\ movie_indices' = movie_indices
            /\ Built => feature_matrix' = feature_matrix
            /\ ~Built => \/ feature_matrix' = None
                         \/ feature_matrix' = Matrix(feature_engineering(movies))
      ]_vars

\* a call that found the recommender READY (built by a direct
\* feature_engineering call) and ended in not-found
C9_Witness ==
    /\ lastOp = "calculate_similarity" /\ outcome = "not_found"
    /\ Built /\ explicit /\ builds = 0 /\ N >= 2

\* C10 as stated, for the calls that did leave the query out: among returned
\* movies of equal similarity the lower row comes first, and a movie left
\* out never ties with a returned movie of a higher row.
C10_TiesByRowOrder ==
    (Returned /\ movie_indices[target] \notin Range(indices)) =>
        /\ \A a, b \in DOMAIN indices :
              (a < b /\ ScoreEq(LastScores[indices[a]], LastScores[indices[b]]))
                  => indices[a] < indices[b]
        /\ \A j \in (1..N) \ (Range(indices) \cup {movie_indices[target]}) :
              \A a \in DOMAIN indices :
                  ScoreEq(LastScores[j], LastScores[indices[a]]) => indices[a] < j

\* C10 as amended: the returned movies are in non-increasing similarity;
\* one movie that scores at least as high as all of them is left out, and
\* every other movie left out scores no higher than any returned one.  The
\* order among equal scores is not fixed.
C10_DescendingSimilarity ==
    Returned =>
        /\ \A a, b \in DOMAIN indices :
              a < b => ScoreLeq(LastScores[indices[b]], LastScores[indices[a]])
        /\ Cardinality(Range(indices)) = Len(indices)
        /\ \E d \in (1..N) \ Range(indices) :
              /\ \A a \in DOMAIN indices :
                    ScoreLeq(LastScores[indices[a]], LastScores[d])
              /\ \A j \in (1..N) \ (Range(indices) \cup {d}) :
                    \A a \in DOMAIN indices :
                        ScoreLeq(LastScores[j], LastScores[indices[a]])

C10_Witness ==
    /\ Returned /\ N >= 7
    /\ movie_indices[target] \notin Range(indices)
    /\ \E a, b \in DOMAIN indices :
          /\ a < b
          /\ ScoreEq(LastScores[indices[a]], LastScores[indices[b]])
          /\ indices[a] > indices[b]
    /\ \E a, b \in DOMAIN indices :
          ~ScoreEq(LastScores[indices[a]], LastScores[indices[b]])

===========================================================================
